---------------------------- MODULE Spec2Model ----------------------------
(***************************************************************************)
(* Verification model of del-geo: the symmetric 3x3 eigen solver           *)
(* (mat3_sym::eigen_decomp), the column-major SVD wrapper, the rotation    *)
(* projector (enforce_rotation_matrix_for_svd, rotational_component), the *)
(* column-major differential wrapper, and the collaborators aabb,          *)
(* edge3::nearest_to_edge3, minimum_rotation_matrix, ccd2::coplanar_time,  *)
(* the skew matrices and try_inverse of mat3_col_major,                    *)
(* edge3::intersection_edge3_when_coplanar and vec2::from_homogeneous.     *)
(*                                                                         *)
(* A 3x3 matrix is an array indexed 0..8 exactly as in the Rust source     *)
(* ([Real; 9]); a packed symmetric matrix is an array indexed 0..5 in the  *)
(* order [m00, m11, m22, m12, m20, m01].                                   *)
(*                                                                         *)
(* Scalars.  The rotation projector is modelled over the integers: every   *)
(* integer of the model is an f64 value, and negation, the products and    *)
(* the sums used are exact on them, so the integer result is the f64       *)
(* result.  The eigen solver is modelled in two parts: its input and the   *)
(* magnitude test are exact (entries are integer multiples of 2^-28), and  *)
(* the Jacobi sweep is carried out in fixed-point arithmetic with FP       *)
(* units per 1.0, rounding to nearest after every operation.               *)
(***************************************************************************)
EXTENDS Integers, Sequences, FiniteSets, TLC

VARIABLES
    mode,       \* which entry point this behaviour exercises
    \* ---- enforce_rotation_matrix_for_svd ----
    eu, el, ev, \* the arguments u, l, v
    epc,        \* "call" | "once" | "twice"
    eout,       \* the returned triple of the first application
    eout2,      \* the returned triple of the application to eout
    \* ---- svd / rotational_component ----
    ra,         \* the argument a (column-major)
    rengine,    \* what mat3_row_major::svd answers on a: None or a triple
    rpc,        \* "call" | "svd" | "done" | "panic"
    rsvd,       \* what mat3_col_major::svd returned
    rout,       \* the returned matrix
    \* ---- mat3_sym::eigen_decomp ----
    gsm,        \* the argument sm, entries in units of 2^-28
    gnitr,      \* the argument nitr
    gpc,        \* "call" | "loop" | "done"
    gscale,     \* dnrm.sqrt(), fixed-point, in units of 2^-28
    gsms,       \* the working matrix, fixed-point
    gu,         \* the accumulated rotations, fixed-point
    gitr,       \* iterations of the loop completed
    gm, gv,     \* the copies of sms and u taken at the head of the last iteration
    gpivot,     \* the branch taken by the last iteration: "12" | "20" | "01"
    gres,       \* the returned Option<(u, l)>
    \* ---- the process ----
    stderr,     \* what the calls have written to the standard error stream
    \* ---- mat3_col_major::svd_differential ----
    dusv,       \* the arguments (u, s, v)
    dpc,        \* "call" | "done"
    dcall,      \* the arguments handed to mat3_row_major::svd_differential
    dengine,    \* what mat3_row_major::svd_differential answered
    dout,       \* the returned triple
    \* ---- aabb::intersections_against_line / intersections_against_ray ----
    baabb,      \* the argument aabb, [min_0, min_1, max_0, max_1]
    borg,       \* the origin of the line or ray
    bdir,       \* its direction
    bpc,        \* "call" | "line" | "ray"
    bres,       \* the returned Option<(t_min, t_max)>, in halves
    \* ---- edge3::nearest_to_edge3 ----
    kedges,     \* the arguments (p0, p1, q0, q1), in units of 2^-27
    kpc,        \* "call" | "done" | "panic"
    kres,       \* the returned (dist, rp, rq)
    \* ---- mat3_col_major::minimum_rotation_matrix ----
    mv0, mv1,   \* the arguments v0 and v1
    mpc,        \* "call" | "done"
    mres,       \* the returned matrix
    \* ---- ccd2::coplanar_time ----
    cstart,     \* the argument s: three points
    cend,       \* the argument e: three points
    cpc,        \* "call" | "done"
    ccoef,      \* the coefficients handed to quadratic_root
    cres,       \* the returned Option<[T; 2]>
    \* ---- mat3_col_major::from_vec3_to_skew_mat / to_vec3_from_skew_mat ----
    wv, ww,     \* the vector v and a second vector w
    wpc,        \* "call" | "skew"
    wmat,       \* the skew matrix returned for v
    wback,      \* the vector read back from wmat
    wprod,      \* mult_vec(wmat, w)
    \* ---- mat3_col_major::try_inverse ----
    im,         \* the argument b
    ipc,        \* "call" | "done"
    ires,       \* the returned Option<[T; 9]>, exact rationals
    \* ---- edge3::intersection_edge3_when_coplanar ----
    xedges,     \* the arguments (p0, p1, q0, q1), in units of 2^-13
    xpc,        \* "call" | "done"
    xres,       \* the returned Option<(rp0, rp1, rq0, rq1)>
    \* ---- vec2::from_homogeneous ----
    hv,         \* the argument v
    hpc,        \* "call" | "done"
    hres        \* the returned Option<[T; 2]>, exact rationals

enfVars == <<eu, el, ev, epc, eout, eout2>>
rcVars == <<ra, rengine, rpc, rsvd, rout>>
eigVars == <<gsm, gnitr, gpc, gscale, gsms, gu, gitr, gm, gv, gpivot, gres>>
diffVars == <<dusv, dpc, dcall, dengine, dout>>
aabbVars == <<baabb, borg, bdir, bpc, bres>>
edgeVars == <<kedges, kpc, kres>>
rotVars == <<mv0, mv1, mpc, mres>>
ccdVars == <<cstart, cend, cpc, ccoef, cres>>
coreVars == <<enfVars, rcVars, eigVars>>
geoVars == <<diffVars, aabbVars, edgeVars, rotVars, ccdVars>>
skewVars == <<wv, ww, wpc, wmat, wback, wprod>>
invVars == <<im, ipc, ires>>
copVars == <<xedges, xpc, xres>>
homVars == <<hv, hpc, hres>>
algVars == <<skewVars, invVars, copVars, homVars>>
vars == <<mode, stderr, coreVars, geoVars, algVars>>

\* Option<T>: None is the empty tuple, Some(x) the one-element tuple
None == <<>>
Some(x) == <<x>>
IsNone(o) == Len(o) = 0
Unwrapped(o) == o[1]

(***************************** bounds **************************************)
\* singular values of the model are drawn from 0..MaxSigma
MaxSigma == 1
\* iteration budgets nitr of the model are drawn from 0..MaxIter
MaxIter == 3
\* fixed-point resolution of the Jacobi sweep: FP units per 1.0
FP == 1000
\* the rotation sensitivities a differential answers are multiples of
\* -MaxSens..MaxSens
MaxSens == 1
\* coordinates of the boxes are drawn from 0..MaxCoord
MaxCoord == 2
\* the arguments of minimum_rotation_matrix have a length of at most MaxLen
MaxLen == 2
\* the roots kept of a polynomial are the integers of -MaxRoot..MaxRoot
MaxRoot == 3

(**************************** constants ************************************)
\* the const generic NDIM of the aabb functions
NDIM == 2
\* stands for Real::max_value(), in halves: above every quotient of the model
RealMax == 1000
\* machine epsilon 2^-52 in units of 2^-54
EdgeEpsilon == 4

(************************** array helpers **********************************)
Idx9 == 0..8
Idx3 == 0..2

\* a Rust array literal [x0, ..., x8], indexed from 0
Arr(t) == [i \in 0..(Len(t) - 1) |-> t[i + 1]]

Abs(x) == IF x < 0 THEN -x ELSE x

(********************* mat3_col_major: plain arithmetic ********************)
from_diagonal(s) == Arr(<<s[0], 0, 0, 0, s[1], 0, 0, 0, s[2]>>)

from_identity == Arr(<<1, 0, 0, 0, 1, 0, 0, 0, 1>>)

transpose(m) == Arr(<<m[0], m[3], m[6], m[1], m[4], m[7], m[2], m[5], m[8]>>)

\* r[i + 3j] = sum_k a[i + 3k] * b[k + 3j]
mult_mat_col_major(a, b) ==
    [n \in Idx9 |->
        LET i == n % 3
            j == n \div 3
        IN  a[i] * b[3 * j] + a[i + 3] * b[1 + 3 * j] + a[i + 6] * b[2 + 3 * j]]

determinant(b) ==
    b[0] * b[4] * b[8] + b[3] * b[7] * b[2] + b[6] * b[1] * b[5]
        - b[0] * b[7] * b[5]
        - b[6] * b[4] * b[2]
        - b[3] * b[1] * b[8]

(******************* enforce_rotation_matrix_for_svd ***********************)
\* the three negated entries v[6], v[7], v[8]
\* mutant: the second column is negated as well
Mut_NegThirdColumn(m) ==
    [m EXCEPT ![3] = -m[3], ![4] = -m[4], ![5] = -m[5],
              ![6] = -m[6], ![7] = -m[7], ![8] = -m[8]]

NegThirdColumn(m) == [m EXCEPT ![6] = -m[6], ![7] = -m[7], ![8] = -m[8]]

\* mutant: the singular value keeps its sign when a column is flipped
Mut_NegThirdValue(l) == l

\* l[2] = -l[2]
NegThirdValue(l) == [l EXCEPT ![2] = -l[2]]

\* mutant: only the outer test's first disjunct (on v) guards the body
Mut_EnforceOnlyV(u, l, v) ==
    IF determinant(v) < 0
    THEN <<u, NegThirdValue(l), NegThirdColumn(v)>>
    ELSE <<u, l, v>>

\* mutant: a non-positive determinant, not only a negative one, is flipped
Mut_EnforceNonPositive(u, l, v) ==
    LET fv == determinant(v) <= 0
        fu == determinant(u) <= 0
        l1 == IF fv THEN NegThirdValue(l) ELSE l
    IN  <<IF fu THEN NegThirdColumn(u) ELSE u,
          IF fu THEN NegThirdValue(l1) ELSE l1,
          IF fv THEN NegThirdColumn(v) ELSE v>>

\* mutant: inside the body the factor u is flipped on v's test
Mut_EnforceShared(u, l, v) ==
    IF determinant(v) < 0 \/ determinant(u) < 0
    THEN <<NegThirdColumn(u), l, NegThirdColumn(v)>>
    ELSE <<u, l, v>>

enforce_rotation_matrix_for_svd(u, l, v) ==
    IF determinant(v) < 0 \/ determinant(u) < 0
    THEN LET v1 == IF determinant(v) < 0 THEN NegThirdColumn(v) ELSE v
             l1 == IF determinant(v) < 0 THEN NegThirdValue(l) ELSE l
             u2 == IF determinant(u) < 0 THEN NegThirdColumn(u) ELSE u
             l2 == IF determinant(u) < 0 THEN NegThirdValue(l1) ELSE l1
         IN  <<u2, l2, v1>>
    ELSE <<u, l, v>>

(************* mat3_sym: magnitude of a packed symmetric matrix ************)
squared_norm(sm) ==
    sm[0] * sm[0] + sm[1] * sm[1] + sm[2] * sm[2]
        + 2 * (sm[3] * sm[3] + sm[4] * sm[4] + sm[5] * sm[5])

(********************* mat3_row_major::svd (contract) **********************)
\* Row-major storage of U * diag(S) * V^T for row-major u and v:
\* f[3i + j] = sum_k u[3i + k] * s[k] * v[3j + k]
RowMajorProduct(u, s, v) ==
    [n \in Idx9 |->
        LET i == n \div 3
            j == n % 3
        IN  u[3 * i] * s[0] * v[3 * j]
          + u[3 * i + 1] * s[1] * v[3 * j + 1]
          + u[3 * i + 2] * s[2] * v[3 * j + 2]]

\* Packed Gram matrix F^T F of a row-major f, [g00, g11, g22, g12, g20, g01]
GramPacked(f) ==
    LET g(a, b) == f[a] * f[b] + f[a + 3] * f[b + 3] + f[a + 6] * f[b + 6]
    IN  Arr(<<g(0, 0), g(1, 1), g(2, 2), g(1, 2), g(2, 0), g(0, 1)>>)

\* The intermediate eigendecomposition has no result when the Gram matrix is
\* below machine epsilon in squared norm; on integer entries (0 < epsilon < 1)
\* that is a squared norm below one.
GramDegenerate(f) == squared_norm(GramPacked(f)) < 1

\* The answer of the row-major engine on f, given a factorisation of f it may
\* find: None on a degenerate input, the factorisation otherwise.
RowMajorSvd(f, triple) == IF GramDegenerate(f) THEN None ELSE Some(triple)

(*************************** mat3_col_major::svd ***************************)
\* mutant: the factors are transposed but not exchanged
Mut_SvdNoSwap(engine) ==
    IF IsNone(engine)
    THEN None
    ELSE LET usv == Unwrapped(engine)
         IN  Some(<<transpose(usv[1]), usv[2], transpose(usv[3])>>)

\* let (u, s, v) = mat3_row_major::svd(f, mode)?;
\* Some((transpose(&v), s, transpose(&u)))
svd(engine) ==
    IF IsNone(engine)
    THEN None
    ELSE LET usv == Unwrapped(engine)
         IN  Some(<<transpose(usv[3]), usv[2], transpose(usv[1])>>)

(************************** rotational_component ***************************)
\* what a call ends in: a fatal abort, or a returned value
Panic == [abort |-> TRUE]
Returned(x) == [abort |-> FALSE, value |-> x]

\* mutant: the first column of v_t is negated instead of its first row
Mut_FlipVt(v_t) == [v_t EXCEPT ![0] = -v_t[0], ![1] = -v_t[1], ![2] = -v_t[2]]

\* [-v_t[0], v_t[1], v_t[2], -v_t[3], v_t[4], v_t[5], -v_t[6], v_t[7], v_t[8]]
FlipVt(v_t) == [v_t EXCEPT ![0] = -v_t[0], ![3] = -v_t[3], ![6] = -v_t[6]]

\* mutant: the product is returned whatever its determinant
Mut_RotationalResult(u, v) == mult_mat_col_major(u, transpose(v))

\* the body after the unwrap
RotationalResult(u, v) ==
    LET v_t == transpose(v)
        u_vt == mult_mat_col_major(u, v_t)
    IN  IF determinant(u_vt) > 0
        THEN u_vt
        ELSE mult_mat_col_major(u, FlipVt(v_t))

\* dbg!(determinant(&u_vt)) writes the determinant to the standard error stream
DbgDeterminant(u, v) == determinant(mult_mat_col_major(u, transpose(v)))

\* svd(a, JacobiNumIter(20)).unwrap() aborts on None
rotational_component(engine) ==
    LET r == svd(engine)
    IN  IF IsNone(r)
        THEN Panic
        ELSE Returned(RotationalResult(Unwrapped(r)[1], Unwrapped(r)[3]))

(************************ fixed-point arithmetic ***************************)
\* a / b rounded to the nearest integer, symmetric in the sign of a (b > 0)
RDiv(a, b) ==
    IF a >= 0 THEN (2 * a + b) \div (2 * b) ELSE -((2 * (-a) + b) \div (2 * b))

\* the product of two fixed-point numbers
Mul(a, b) == RDiv(a * b, FP)

RECURSIVE IsqrtIter(_, _, _)
IsqrtIter(n, lo, hi) ==
    IF lo >= hi
    THEN lo
    ELSE LET mid == (lo + hi + 1) \div 2
         IN  IF mid * mid <= n
             THEN IsqrtIter(n, mid, hi)
             ELSE IsqrtIter(n, lo, mid - 1)

\* the integer nearest to the square root of n >= 0
Sqrt(n) ==
    LET r == IsqrtIter(n, 0, 46340)
    IN  IF n - r * r > r THEN r + 1 ELSE r

Max(a, b) == IF a >= b THEN a ELSE b

\* <<t.cos(), t.sin()>> for t = half * y.atan2(x), in fixed point.
\* t lies in (-pi/2, pi/2], cos 2t = x/r and sin 2t = y/r for r = |(x, y)|;
\* (x, y) is first rescaled, atan2 depending on its direction only.
\* atan2(0, 0) = 0.
HalfAtan2CosSin(y, x) ==
    LET big == Max(Abs(x), Abs(y))
    IN  IF big = 0
        THEN <<FP, 0>>
        ELSE LET g == (20 * FP) \div big
                 xs == x * g
                 ys == y * g
                 r == Sqrt(xs * xs + ys * ys)
                 c2 == RDiv(xs * FP, r)
                 s2 == RDiv(ys * FP, r)
             IN  IF x >= 0
                 THEN LET ct == Sqrt(((FP + c2) * FP) \div 2)
                      IN  <<ct, RDiv(s2 * FP, 2 * ct)>>
                 ELSE LET sa == Sqrt(((FP - c2) * FP) \div 2)
                      IN  <<RDiv(Abs(s2) * FP, 2 * sa),
                            IF y >= 0 THEN sa ELSE -sa>>

(*************************** mat3_sym::eigen_decomp ************************)
Idx6 == 0..5

\* machine epsilon 2^-52 in the unit of dnrm, (2^-28)^2 = 2^-56
Epsilon == 16

\* mutant: a squared norm equal to epsilon counts as too small as well
Mut_TooSmall(dnrm) == dnrm <= Epsilon

\* dnrm < Real::epsilon()
TooSmall(dnrm) == dnrm < Epsilon

\* dnrm.sqrt(), in fixed point
ScaleOf(dnrm) == Sqrt(dnrm * FP * FP)

\* sm.map(|x| x * invscl) for invscl = one / scale
Normalized(a, scl) == [i \in Idx6 |-> RDiv(a[i] * FP * FP, scl)]

\* u as initialized: the identity matrix
UInit == Arr(<<FP, 0, 0, 0, FP, 0, 0, 0, FP>>)

\* mutant: the first branch needs a12 strictly above a20
Mut_Is12(a) == Abs(a[3]) > Abs(a[4]) /\ Abs(a[3]) >= Abs(a[5])

\* the branch conditions of one iteration, on a12, a20, a01
Is12(a) == Abs(a[3]) >= Abs(a[4]) /\ Abs(a[3]) >= Abs(a[5])
Is20(a) == ~Is12(a) /\ Abs(a[4]) >= Abs(a[5]) /\ Abs(a[4]) >= Abs(a[3])
Is01(a) == ~Is12(a) /\ ~Is20(a)

\* two rotated columns: ct * a - st * b and st * a + ct * b
RotMinus(ct, st, a, b) == Mul(ct, a) - Mul(st, b)
RotPlus(ct, st, a, b) == Mul(st, a) + Mul(ct, b)

\* the two rotated diagonal entries
DiagMinus(ct, st, a, b, c) ==
    Mul(Mul(ct, ct), a) + Mul(Mul(st, st), b) - Mul(Mul(2 * st, ct), c)
DiagPlus(ct, st, a, b, c) ==
    Mul(Mul(ct, ct), a) + Mul(Mul(st, st), b) + Mul(Mul(2 * st, ct), c)

\* when a12 sms[3] is the biggest
Sms12(a, cs) ==
    LET ct == cs[1]
        st == cs[2]
    IN  [a EXCEPT ![1] = DiagMinus(ct, st, a[1], a[2], a[3]),
                  ![2] = DiagPlus(ct, st, a[2], a[1], a[3]),
                  ![3] = 0,
                  ![4] = Mul(st, a[5]) + Mul(ct, a[4]),
                  ![5] = Mul(ct, a[5]) - Mul(st, a[4])]

\* mutant: the rotation is accumulated with the sign of st reversed in u[2]
Mut_U12(w, cs) ==
    LET ct == cs[1]
        st == cs[2]
    IN  [w EXCEPT ![1] = RotMinus(ct, st, w[1], w[2]),
                  ![2] = Mul(ct, w[2]) - Mul(st, w[1]),
                  ![4] = RotMinus(ct, st, w[4], w[5]),
                  ![5] = RotPlus(ct, st, w[4], w[5]),
                  ![7] = RotMinus(ct, st, w[7], w[8]),
                  ![8] = RotPlus(ct, st, w[7], w[8])]

U12(w, cs) ==
    LET ct == cs[1]
        st == cs[2]
    IN  [w EXCEPT ![1] = RotMinus(ct, st, w[1], w[2]),
                  ![2] = RotPlus(ct, st, w[1], w[2]),
                  ![4] = RotMinus(ct, st, w[4], w[5]),
                  ![5] = RotPlus(ct, st, w[4], w[5]),
                  ![7] = RotMinus(ct, st, w[7], w[8]),
                  ![8] = RotPlus(ct, st, w[7], w[8])]

\* when a20 sms[4] is the biggest
Sms20(a, cs) ==
    LET ct == cs[1]
        st == cs[2]
    IN  [a EXCEPT ![0] = DiagMinus(ct, st, a[0], a[2], a[4]),
                  ![2] = DiagPlus(ct, st, a[2], a[0], a[4]),
                  ![3] = Mul(st, a[5]) + Mul(ct, a[3]),
                  ![4] = 0,
                  ![5] = Mul(ct, a[5]) - Mul(st, a[3])]

\* mutant: the rotation is accumulated into the entries 0 and 1 of each
\* triple instead of 0 and 2
Mut_U20(w, cs) ==
    LET ct == cs[1]
        st == cs[2]
    IN  [w EXCEPT ![0] = RotMinus(ct, st, w[0], w[1]),
                  ![1] = RotPlus(ct, st, w[0], w[1]),
                  ![3] = RotMinus(ct, st, w[3], w[4]),
                  ![4] = RotPlus(ct, st, w[3], w[4]),
                  ![6] = RotMinus(ct, st, w[6], w[7]),
                  ![7] = RotPlus(ct, st, w[6], w[7])]

U20(w, cs) ==
    LET ct == cs[1]
        st == cs[2]
    IN  [w EXCEPT ![0] = RotMinus(ct, st, w[0], w[2]),
                  ![2] = RotPlus(ct, st, w[0], w[2]),
                  ![3] = RotMinus(ct, st, w[3], w[5]),
                  ![5] = RotPlus(ct, st, w[3], w[5]),
                  ![6] = RotMinus(ct, st, w[6], w[8]),
                  ![8] = RotPlus(ct, st, w[6], w[8])]

\* when a01 sms[5] is the biggest
Sms01(a, cs) ==
    LET ct == cs[1]
        st == cs[2]
    IN  [a EXCEPT ![0] = DiagMinus(ct, st, a[0], a[1], a[5]),
                  ![1] = DiagPlus(ct, st, a[1], a[0], a[5]),
                  ![3] = Mul(st, a[4]) + Mul(ct, a[3]),
                  ![4] = Mul(ct, a[4]) - Mul(st, a[3]),
                  ![5] = 0]

U01(w, cs) ==
    LET ct == cs[1]
        st == cs[2]
    IN  [w EXCEPT ![0] = RotMinus(ct, st, w[0], w[1]),
                  ![1] = RotPlus(ct, st, w[0], w[1]),
                  ![3] = RotMinus(ct, st, w[3], w[4]),
                  ![4] = RotPlus(ct, st, w[3], w[4]),
                  ![6] = RotMinus(ct, st, w[6], w[7]),
                  ![7] = RotPlus(ct, st, w[6], w[7])]

\* std::array::from_fn(|i| scale * sms[i]) for a [Real; 3]
Rescaled(scl, a) == [i \in Idx3 |-> RDiv(scl * a[i], FP)]

(***************************** input domains *******************************)
\* the orthogonal matrices with integer entries: the signed permutations
Perms3 == {p \in [Idx3 -> Idx3] : \A i, j \in Idx3 : p[i] = p[j] => i = j}

\* column j holds sgn[j] in row p[j]
SignedPerm(p, sgn) ==
    [n \in Idx9 |-> IF n % 3 = p[n \div 3] THEN sgn[n \div 3] ELSE 0]

Orth3 == {SignedPerm(p, sgn) : p \in Perms3, sgn \in [Idx3 -> {-1, 1}]}

IsOrthogonal(m) == mult_mat_col_major(transpose(m), m) = from_identity

\* factors that are not orthogonal: singular, determinant -2, determinant 2
OtherMats ==
    { Arr(<<1, 0, 0, 0, 1, 0, 1, 1, 0>>),
      Arr(<<1, 0, 0, 0, 1, 0, 0, 1, -2>>),
      Arr(<<0, 1, 0, -1, 0, 0, 1, 0, 2>>) }

Sigmas == [Idx3 -> 0..MaxSigma]

NoMat == [i \in Idx9 |-> 0]
NoTriple == <<NoMat, [i \in Idx3 |-> 0], NoMat>>

(****************** enforce_rotation_matrix_for_svd: calls *****************)
EnfIdle ==
    /\ eu = NoMat /\ el = [i \in Idx3 |-> 0] /\ ev = NoMat
    /\ epc = "idle" /\ eout = NoTriple /\ eout2 = NoTriple

EnfInit ==
    /\ mode = "enforce"
    /\ eu \in Orth3 \cup OtherMats
    /\ ev \in Orth3 \cup OtherMats
    /\ el \in Sigmas
    /\ epc = "call"
    /\ eout = NoTriple
    /\ eout2 = NoTriple

\* (u', l', v') = enforce_rotation_matrix_for_svd(&u, &l, &v)
Enforce ==
    /\ mode = "enforce"
    /\ epc = "call"
    /\ eout' = enforce_rotation_matrix_for_svd(eu, el, ev)
    /\ epc' = "once"
    /\ UNCHANGED <<mode, eu, el, ev, eout2, rcVars, eigVars, stderr, geoVars, algVars>>

\* the function applied to its own output
EnforceAgain ==
    /\ mode = "enforce"
    /\ epc = "once"
    /\ eout2' = enforce_rotation_matrix_for_svd(eout[1], eout[2], eout[3])
    /\ epc' = "twice"
    /\ UNCHANGED <<mode, eu, el, ev, eout, rcVars, eigVars, stderr, geoVars, algVars>>

(******************** svd / rotational_component: calls ********************)
RcIdle ==
    /\ ra = NoMat /\ rengine = None /\ rpc = "idle"
    /\ rsvd = None /\ rout = NoMat

RcInit ==
    /\ mode = "rotcomp"
    /\ \E u \in Orth3, v \in Orth3, s \in Sigmas :
          /\ ra = RowMajorProduct(u, s, v)
          /\ rengine = RowMajorSvd(ra, <<u, s, v>>)
    /\ rpc = "call"
    /\ rsvd = None
    /\ rout = NoMat

\* a caller asks for the decomposition
Svd ==
    /\ mode = "rotcomp"
    /\ rpc = "call"
    /\ rsvd' = svd(rengine)
    /\ rpc' = "svd"
    /\ UNCHANGED <<mode, ra, rengine, rout, enfVars, eigVars, stderr, geoVars, algVars>>

\* a caller asks for the rotational component
RotationalComponent ==
    /\ mode = "rotcomp"
    /\ rpc = "call"
    /\ LET r == rotational_component(rengine)
       IN  IF r.abort
           THEN rpc' = "panic" /\ UNCHANGED <<rsvd, rout, stderr>>
           ELSE /\ rpc' = "done"
                /\ rsvd' = svd(rengine)
                /\ rout' = r.value
                /\ stderr' = Append(stderr,
                                    DbgDeterminant(Unwrapped(svd(rengine))[1],
                                                   Unwrapped(svd(rengine))[3]))
    /\ UNCHANGED <<mode, ra, rengine, enfVars, eigVars, geoVars, algVars>>

(************************* eigen_decomp: calls *****************************)
NoSym == [i \in Idx6 |-> 0]

EigIdle ==
    /\ gsm = NoSym /\ gnitr = 0 /\ gpc = "idle" /\ gscale = 0
    /\ gsms = NoSym /\ gu = NoMat /\ gitr = 0
    /\ gm = NoSym /\ gv = NoMat /\ gpivot = "" /\ gres = None

\* the entries of the packed arguments, in units of 2^-28
SymEntries == {-4, 0, 1, 3}

EigInit ==
    /\ mode = "eigen"
    /\ gsm \in [Idx6 -> SymEntries]
    /\ gnitr \in 0..MaxIter
    /\ gpc = "call"
    /\ gscale = 0
    /\ gsms = NoSym
    /\ gu = NoMat
    /\ gitr = 0
    /\ gm = NoSym
    /\ gv = NoMat
    /\ gpivot = ""
    /\ gres = None

\* lines 16-28: the matrix is too small
EigenTooSmall ==
    /\ mode = "eigen"
    /\ gpc = "call"
    /\ TooSmall(squared_norm(gsm))
    /\ gu' = UInit
    /\ gres' = None
    /\ gpc' = "done"
    /\ UNCHANGED <<mode, gsm, gnitr, gscale, gsms, gitr, gm, gv, gpivot, enfVars, rcVars, stderr, geoVars, algVars>>

\* lines 16-31: u is the identity, sms the normalized argument
EigenNormalize ==
    /\ mode = "eigen"
    /\ gpc = "call"
    /\ ~TooSmall(squared_norm(gsm))
    /\ gu' = UInit
    /\ gscale' = ScaleOf(squared_norm(gsm))
    /\ gsms' = Normalized(gsm, gscale')
    /\ gpc' = "loop"
    /\ UNCHANGED <<mode, gsm, gnitr, gitr, gm, gv, gpivot, gres, enfVars, rcVars, stderr, geoVars, algVars>>

\* mutant: an iteration counts as two
Mut_Jacobi(branch, cs, newSms, newU) ==
    /\ mode = "eigen"
    /\ gpc = "loop"
    /\ gitr < gnitr
    /\ gm' = gsms
    /\ gv' = gu
    /\ gsms' = newSms
    /\ gu' = newU
    /\ gpivot' = branch
    /\ gitr' = gitr + 2
    /\ UNCHANGED <<mode, gsm, gnitr, gpc, gscale, gres, enfVars, rcVars, stderr, geoVars, algVars>>

\* one iteration of the loop, by the branch it takes
Jacobi(branch, cs, newSms, newU) ==
    /\ mode = "eigen"
    /\ gpc = "loop"
    /\ gitr < gnitr
    /\ gm' = gsms
    /\ gv' = gu
    /\ gsms' = newSms
    /\ gu' = newU
    /\ gpivot' = branch
    /\ gitr' = gitr + 1
    /\ UNCHANGED <<mode, gsm, gnitr, gpc, gscale, gres, enfVars, rcVars, stderr, geoVars, algVars>>

Jacobi12 ==
    /\ Is12(gsms)
    /\ LET cs == HalfAtan2CosSin(2 * gsms[3], gsms[2] - gsms[1])
       IN  Jacobi("12", cs, Sms12(gsms, cs), U12(gu, cs))

Jacobi20 ==
    /\ Is20(gsms)
    /\ LET cs == HalfAtan2CosSin(2 * gsms[4], gsms[2] - gsms[0])
       IN  Jacobi("20", cs, Sms20(gsms, cs), U20(gu, cs))

Jacobi01 ==
    /\ Is01(gsms)
    /\ LET cs == HalfAtan2CosSin(2 * gsms[5], gsms[1] - gsms[0])
       IN  Jacobi("01", cs, Sms01(gsms, cs), U01(gu, cs))

\* lines 94-95: the loop has run nitr times
EigenReturn ==
    /\ mode = "eigen"
    /\ gpc = "loop"
    /\ gitr = gnitr
    /\ gres' = Some(<<gu, Rescaled(gscale, gsms)>>)
    /\ gpc' = "done"
    /\ UNCHANGED <<mode, gsm, gnitr, gscale, gsms, gu, gitr, gm, gv, gpivot, enfVars, rcVars, stderr, geoVars, algVars>>

(***************** mat3_row_major::svd_differential (contract) *************)
\* The singular-value sensitivities of the row-major differential:
\* ds[k][3i + j] = dS_k / dA_ij = U_ik V_jk = u[3i + k] * v[3j + k]
RowMajorDiffS(u, v) ==
    [k \in Idx3 |->
        [n \in Idx9 |-> u[3 * (n \div 3) + k] * v[3 * (n % 3) + k]]]

\* The rotation sensitivities du and dv the row-major differential may answer:
\* its formulas are not modelled, every pair of answers is considered.
Sensitivities ==
    {[k \in Idx3 |-> [n \in Idx9 |-> c * (k + 1)]] : c \in (-MaxSens)..MaxSens}

(********************* mat3_col_major::svd_differential ********************)
\* mutant: the delegated call is made without exchanging u and v
Mut_DifferentialCall(u, s, v) == <<transpose(u), s, transpose(v)>>

\* the arguments of the delegated call: (v.transpose(), s, u.transpose())
DifferentialCall(u, s, v) == <<transpose(v), s, transpose(u)>>

\* let (du, ds, dv) = <the engine's answer>; (dv, ds, du)
svd_differential(answer) == <<answer[3], answer[2], answer[1]>>

(******************************** aabb *************************************)
Min(a, b) == IF a <= b THEN a ELSE b

\* (a / d) counted in halves, for d in {-2, -1, 1, 2}: exact, as in f64
HalfQuotient(a, d) == IF d > 0 THEN (2 * a) \div d ELSE -((2 * a) \div (-d))

\* mutant: the two quotients of a dimension are taken in the order written
Mut_LineStep(aabb, org, dir, i, acc) ==
    IF acc.miss
    THEN acc
    ELSE IF Abs(dir[i]) # 0
         THEN LET t1 == HalfQuotient(aabb[i] - org[i], dir[i])
                  t2 == HalfQuotient(aabb[i + NDIM] - org[i], dir[i])
              IN  [acc EXCEPT !.tmin = Max(acc.tmin, t1),
                              !.tmax = Min(acc.tmax, t2)]
         ELSE IF org[i] < aabb[i] \/ org[i] > aabb[i + NDIM]
              THEN [acc EXCEPT !.miss = TRUE]
              ELSE acc

\* one iteration of the loop over the dimensions (lines 24-31); miss records
\* the early return of None
LineStep(aabb, org, dir, i, acc) ==
    IF acc.miss
    THEN acc
    ELSE IF Abs(dir[i]) # 0
         THEN LET t1 == HalfQuotient(aabb[i] - org[i], dir[i])
                  t2 == HalfQuotient(aabb[i + NDIM] - org[i], dir[i])
              IN  [acc EXCEPT !.tmin = Max(acc.tmin, Min(t1, t2)),
                              !.tmax = Min(acc.tmax, Max(t1, t2))]
         ELSE IF org[i] < aabb[i] \/ org[i] > aabb[i + NDIM]
              THEN [acc EXCEPT !.miss = TRUE]
              ELSE acc

RECURSIVE LineLoop(_, _, _, _, _)
LineLoop(aabb, org, dir, i, acc) ==
    IF i = NDIM
    THEN acc
    ELSE LineLoop(aabb, org, dir, i + 1, LineStep(aabb, org, dir, i, acc))

intersections_against_line(aabb, org, dir) ==
    LET r == LineLoop(aabb, org, dir, 0,
                      [tmin |-> -RealMax, tmax |-> RealMax, miss |-> FALSE])
    IN  IF r.miss
        THEN None
        ELSE IF r.tmax >= r.tmin THEN Some(<<r.tmin, r.tmax>>) ELSE None

\* mutant: the filter is on tmin
Mut_intersections_against_ray(aabb, org, dir) ==
    LET r == intersections_against_line(aabb, org, dir)
    IN  IF ~IsNone(r) /\ Unwrapped(r)[1] >= 0 THEN r ELSE None

\* intersections_against_line(..).filter(|(_tmin, tmax)| *tmax >= Real::zero())
intersections_against_ray(aabb, org, dir) ==
    LET r == intersections_against_line(aabb, org, dir)
    IN  IF ~IsNone(r) /\ Unwrapped(r)[2] >= 0 THEN r ELSE None

(***************************** vec3 (contract) *****************************)
dot(a, b) == a[0] * b[0] + a[1] * b[1] + a[2] * b[2]

cross(a, b) ==
    Arr(<<a[1] * b[2] - a[2] * b[1],
          a[2] * b[0] - a[0] * b[2],
          a[0] * b[1] - a[1] * b[0]>>)

sub(a, b) == [i \in Idx3 |-> a[i] - b[i]]

scale(a, s) == [i \in Idx3 |-> a[i] * s]

\* v / |v|, for the vectors whose length is an integer that divides the entries
normalize(v) ==
    LET l == Sqrt(dot(v, v))
    IN  [i \in Idx3 |-> IF v[i] >= 0 THEN v[i] \div l ELSE -((-v[i]) \div l)]

\* the unit vectors along the axes
UnitAxes ==
    {[i \in Idx3 |-> IF i = a THEN sg ELSE 0] : a \in Idx3, sg \in {-1, 1}}

\* basis_xy_from_basis_z(z): a pair (x, y) of unit vectors completing z to a
\* right-handed orthonormal frame; every such pair of axes is considered
Frames(z) == {f \in UnitAxes \X UnitAxes : cross(f[1], f[2]) = z}

(****************** mat3_col_major::minimum_rotation_matrix ****************)
mult_vec(a, b) ==
    Arr(<<a[0] * b[0] + a[3] * b[1] + a[6] * b[2],
          a[1] * b[0] + a[4] * b[1] + a[7] * b[2],
          a[2] * b[0] + a[5] * b[1] + a[8] * b[2]>>)

\* half * x, exact on the even integers
Half(x) == x \div 2

\* lines 549-560: the angle is very small
SmallAngleRotation(n, st2) ==
    Arr(<<1 + Half(n[0] * n[0] - st2),
          -n[2] + Half(n[0] * n[1]),
          n[1] + Half(n[0] * n[2]),
          n[2] + Half(n[1] * n[0]),
          1 + Half(n[1] * n[1] - st2),
          -n[0] + Half(n[1] * n[2]),
          -n[1] + Half(n[2] * n[0]),
          n[0] + Half(n[2] * n[1]),
          1 + Half(n[2] * n[2] - st2)>>)

\* lines 562-575: ep and eq are opposite
OppositeRotation(ep, eq, frame) ==
    LET epx == frame[1]
        epy == frame[2]
        eqx == sub(epx, scale(eq, dot(eq, epx)))
        eqy == cross(eq, eqx)
    IN  Arr(<<dot(eqx, epx), dot(eqy, epx), dot(eq, epx),
              dot(eqx, epy), dot(eqy, epy), dot(eq, epy),
              dot(eqx, ep), dot(eqy, ep), dot(eq, ep)>>)

\* lines 578-591: Rodrigues' rotation formula
RodriguesRotation(n0, st2, ct) ==
    LET st == Sqrt(st2)
        n == normalize(n0)
    IN  Arr(<<ct + (1 - ct) * n[0] * n[0],
              -n[2] * st + (1 - ct) * n[0] * n[1],
              n[1] * st + (1 - ct) * n[0] * n[2],
              n[2] * st + (1 - ct) * n[1] * n[0],
              ct + (1 - ct) * n[1] * n[1],
              -n[0] * st + (1 - ct) * n[1] * n[2],
              -n[1] * st + (1 - ct) * n[2] * n[0],
              n[0] * st + (1 - ct) * n[2] * n[1],
              ct + (1 - ct) * n[2] * n[2]>>)

\* On the integers, x < epsilon is x < 1 and x > 1 - epsilon is x >= 1.
minimum_rotation_matrix(v0, v1, frame) ==
    LET ep == normalize(v0)
        eq == normalize(v1)
        n == cross(ep, eq)
        st2 == dot(n, n)
        ct == dot(ep, eq)
    IN  IF st2 < 1
        THEN IF ct >= 1
             THEN SmallAngleRotation(n, st2)
             ELSE OppositeRotation(ep, eq, frame)
        ELSE RodriguesRotation(n, st2, ct)

(***************************** ccd2::coplanar_time *************************)
Idx2 == 0..1

\* the difference of two nalgebra::Vector2
Sub2(a, b) == [i \in Idx2 |-> a[i] - b[i]]

area_quadrilateral(a, b) == a[0] * b[1] - a[1] * b[0]

\* polynomial_root::quadratic_root(c0, c1, c2) (contract): no result when
\* c0 + c1 t + c2 t^2 has no real root, and its roots otherwise, of which the
\* integers of -MaxRoot..MaxRoot are kept
quadratic_root(c0, c1, c2) ==
    IF c1 * c1 - 4 * c2 * c0 < 0
    THEN None
    ELSE Some({t \in (-MaxRoot)..MaxRoot : c0 + c1 * t + c2 * t * t = 0})

\* lines 17-28: the coefficients handed to quadratic_root
CoplanarCoefficients(s, e) ==
    LET x1 == Sub2(s.p1, s.p0)
        x2 == Sub2(s.p2, s.p0)
        v1 == Sub2(Sub2(e.p1, e.p0), x1)
        v2 == Sub2(Sub2(e.p2, e.p0), x2)
        c0 == area_quadrilateral(x1, x2)
        c1 == area_quadrilateral(x1, x2) + area_quadrilateral(v1, x2)
        c2 == area_quadrilateral(v1, v2)
    IN  <<c0, c1, c2>>

coplanar_time(s, e) ==
    LET c == CoplanarCoefficients(s, e)
    IN  quadratic_root(c[1], c[2], c[3])

(************************** rational arithmetic ****************************)
\* A real number of the edge routines is the rational <<n, d>> in lowest terms
\* with d > 0; a division by zero gives <<0, 0>> (NaN) or <<+-1, 0>>
\* (infinity), as in f64.
Sign(x) == IF x > 0 THEN 1 ELSE IF x < 0 THEN -1 ELSE 0

RECURSIVE GCD(_, _)
GCD(a, b) == IF b = 0 THEN a ELSE GCD(b, a % b)

Q(n, d) ==
    IF d = 0
    THEN <<Sign(n), 0>>
    ELSE LET g == GCD(Abs(n), Abs(d))
         IN  IF d > 0 THEN <<n \div g, d \div g>>
                      ELSE <<(-n) \div g, (-d) \div g>>

QInt(n) == <<n, 1>>
QNeg(a) == <<-a[1], a[2]>>

\* the sum, over the least common denominator; infinity minus infinity and a
\* sum with NaN are NaN
QAdd(a, b) ==
    IF a[2] = 0 \/ b[2] = 0
    THEN IF a[2] = 0 /\ (b[2] # 0 \/ b = a) THEN a
         ELSE IF b[2] = 0 /\ a[2] # 0 THEN b
         ELSE <<0, 0>>
    ELSE LET g == GCD(a[2], b[2])
         IN  Q(a[1] * (b[2] \div g) + b[1] * (a[2] \div g),
               a[2] * (b[2] \div g))

QSub(a, b) == QAdd(a, QNeg(b))

\* the product, cancelling across before multiplying
QMul(a, b) ==
    IF a[2] = 0 \/ b[2] = 0
    THEN <<Sign(a[1]) * Sign(b[1]), 0>>
    ELSE LET g1 == GCD(Abs(a[1]), b[2])
             g2 == GCD(Abs(b[1]), a[2])
         IN  <<(a[1] \div g1) * (b[1] \div g2), (a[2] \div g2) * (b[2] \div g1)>>

QDiv(a, b) ==
    IF b[1] = 0
    THEN IF b[2] = 0 THEN <<0, 0>> ELSE <<Sign(a[1]), 0>>
    ELSE QMul(a, Q(b[2], b[1]))

\* a <= b; false when an operand is NaN
QLe(a, b) ==
    /\ a # <<0, 0>>
    /\ b # <<0, 0>>
    /\ IF a[2] = 0 /\ b[2] = 0 THEN a[1] <= b[1]
                              ELSE a[1] * b[2] <= b[1] * a[2]

\* x.clamp(zero, one): NaN stays NaN
QClamp01(x) ==
    IF x[1] < 0 THEN QInt(0) ELSE IF x[1] > x[2] THEN QInt(1) ELSE x

\* a vector of rationals is the tuple of its three entries
QVec(p) == <<QInt(p[0]), QInt(p[1]), QInt(p[2])>>
QVecSub(a, b) == <<QSub(a[1], b[1]), QSub(a[2], b[2]), QSub(a[3], b[3])>>
QSquaredNorm(a) == QAdd(QAdd(QMul(a[1], a[1]), QMul(a[2], a[2])), QMul(a[3], a[3]))

\* d.dot(&ps), d having integer entries
QDot(d, ps) ==
    QAdd(QAdd(QMul(QInt(d[0]), ps[1]), QMul(QInt(d[1]), ps[2])),
         QMul(QInt(d[2]), ps[3]))

\* vec3::axpy(alpha, x, y) = alpha * x + y, x having integer entries
axpy(alpha, x, y) ==
    <<QAdd(QMul(alpha, QInt(x[0])), y[1]),
      QAdd(QMul(alpha, QInt(x[1])), y[2]),
      QAdd(QMul(alpha, QInt(x[2])), y[3])>>

(********************************* edge3 ***********************************)
\* Coordinates are integers in units of 2^-27: a dot product of differences
\* and a cross product entry are in units of 2^-54, where machine epsilon
\* (2^-52) is EdgeEpsilon.  A distance is kept as its square.

\* the squared distance of two points, for length(p, q)
SquaredLength(p, q) == QSquaredNorm(QVecSub(p, q))

\* lines 73-82: the ratio t
NearestRatio(p0, d, point_pos) ==
    IF dot(d, d) > EdgeEpsilon
    THEN QClamp01(QDiv(QNeg(QDot(d, QVecSub(QVec(p0), point_pos))),
                       QInt(dot(d, d))))
    ELSE Q(1, 2)

\* lines 65-87; returns (dist, t).  A `let` of the code is a value drawn
\* from a singleton set: it is computed once, before the statements using it.
nearest_to_point3(p0, p1, point_pos) ==
    CHOOSE out \in
        {<<SquaredLength(axpy(t, sub(p1, p0), QVec(p0)), point_pos), t>> :
            t \in {NearestRatio(p0, sub(p1, p0), point_pos)}} : TRUE

\* lines 203-231: the edges are handled as parallel.  uvp = vp / |vp|; the
\* projections lp0, lp1, lq0, lq1 are kept multiplied by |vp| > 0, which
\* leaves their comparisons and the two ratios as they are.
ParallelEdges(p0, p1, q0, q1) ==
    LET vp == sub(p1, p0)
        pq0 == sub(p0, q0)
        vert == <<QSub(QInt(pq0[0]), Q(vp[0] * dot(pq0, vp), dot(vp, vp))),
                  QSub(QInt(pq0[1]), Q(vp[1] * dot(pq0, vp), dot(vp, vp))),
                  QSub(QInt(pq0[2]), Q(vp[2] * dot(pq0, vp), dot(vp, vp)))>>
        lp0 == dot(p0, vp)
        lp1 == dot(p1, vp)
        lq0 == dot(q0, vp)
        lq1 == dot(q1, vp)
        fwd == lq0 < lq1
        lq_min == IF fwd THEN lq0 ELSE lq1
        lq_max == IF fwd THEN lq1 ELSE lq0
        q_min == IF fwd THEN q0 ELSE q1
        q_max == IF fwd THEN q1 ELSE q0
        rq_min == IF fwd THEN QInt(0) ELSE QInt(1)
        rq_max == IF fwd THEN QInt(1) ELSE QInt(0)
        lm2 == Max(lp0, lq_min) + Min(lp1, lq_max)
    IN  IF lp1 < lq_min
        THEN [dist |-> SquaredLength(QVec(p1), QVec(q_min)),
              rp |-> QInt(1), rq |-> rq_min]
        ELSE IF lq_max < lp0
             THEN [dist |-> SquaredLength(QVec(q_max), QVec(p0)),
                   rp |-> QInt(0), rq |-> rq_max]
             ELSE [dist |-> QSquaredNorm(vert),
                   rp |-> QDiv(QInt(lm2 - 2 * lp0), QInt(2 * (lp1 - lp0))),
                   rq |-> QDiv(QInt(lm2 - 2 * lq0), QInt(2 * (lq1 - lq0)))]

\* lines 233-245: the parameters of the closest points of the two lines
LineLineRatios(p0, p1, q0, q1) ==
    LET vp == sub(p1, p0)
        vq == sub(q1, q0)
        t0 == dot(vp, vp)
        t1 == dot(vq, vq)
        t2 == dot(vp, vq)
        t3 == dot(vp, sub(q0, p0))
        t4 == dot(vq, sub(q0, p0))
        det == t0 * t1 - t2 * t2
    IN  <<Q(t1 * t3 - t2 * t4, det), Q(t2 * t3 - t0 * t4, det)>>

\* lines 252-258: p in range
PInRange(p0, p1, q0, q1, rq1) ==
    CHOOSE res \in
        {[dist |-> r[1], rp |-> r[2], rq |-> rq1] :
            r \in {nearest_to_point3(p0, p1,
                                     axpy(rq1, sub(q1, q0), QVec(q0)))}} : TRUE

\* lines 259-265: q in range
QInRange(p0, p1, q0, q1, rp1) ==
    CHOOSE res \in
        {[dist |-> r[1], rp |-> rp1, rq |-> r[2]] :
            r \in {nearest_to_point3(q0, q1,
                                     axpy(rp1, sub(p1, p0), QVec(p0)))}} : TRUE

\* lines 266-274: convex projection technique, from the ratio of the call
\* before
ThirdProjection(p0, p1, q0, q1, rp1) ==
    CHOOSE res \in
        {[dist |-> r[1], rp |-> rp1, rq |-> r[2]] :
            r \in {nearest_to_point3(q0, q1,
                                     axpy(rp1, sub(p1, p0), QVec(p0)))}} : TRUE

SecondProjection(p0, p1, q0, q1, rq1) ==
    CHOOSE res \in
        {ThirdProjection(p0, p1, q0, q1, r[2]) :
            r \in {nearest_to_point3(p0, p1,
                                     axpy(rq1, sub(q1, q0), QVec(q0)))}} : TRUE

ConvexProjection(p0, p1, q0, q1, rp1) ==
    CHOOSE res \in
        {SecondProjection(p0, p1, q0, q1, r[2]) :
            r \in {nearest_to_point3(q0, q1,
                                     axpy(rp1, sub(p1, p0), QVec(p0)))}} : TRUE

\* lines 246-274: the edges are not parallel
SkewBranches(p0, p1, q0, q1, rp1, rq1) ==
    LET pin == QLe(QInt(0), rp1) /\ QLe(rp1, QInt(1))
        qin == QLe(QInt(0), rq1) /\ QLe(rq1, QInt(1))
    IN  IF pin /\ qin
        THEN [dist |-> SquaredLength(axpy(rp1, sub(p1, p0), QVec(p0)),
                                     axpy(rq1, sub(q1, q0), QVec(q0))),
              rp |-> rp1, rq |-> rq1]
        ELSE IF pin /\ (QLe(rq1, QInt(0)) \/ QLe(QInt(1), rq1))
        THEN PInRange(p0, p1, q0, q1, QClamp01(rq1))
        ELSE IF qin /\ (QLe(rp1, QInt(0)) \/ QLe(QInt(1), rp1))
        THEN QInRange(p0, p1, q0, q1, QClamp01(rp1))
        ELSE ConvexProjection(p0, p1, q0, q1, QClamp01(rp1))

\* lines 233-274
SkewEdges(p0, p1, q0, q1) ==
    CHOOSE res \in
        {SkewBranches(p0, p1, q0, q1, r[1], r[2]) :
            r \in {LineLineRatios(p0, p1, q0, q1)}} : TRUE

\* the asserts abort on an edge of length zero; the cross product's norm is
\* compared with epsilon through its square
nearest_to_edge3(p0, p1, q0, q1) ==
    LET vp == sub(p1, p0)
        vq == sub(q1, q0)
        c == cross(vp, vq)
    IN  IF dot(vp, vp) = 0 \/ dot(vq, vq) = 0
        THEN Panic
        ELSE IF dot(c, c) < EdgeEpsilon * EdgeEpsilon
             THEN Returned(ParallelEdges(p0, p1, q0, q1))
             ELSE Returned(SkewEdges(p0, p1, q0, q1))

(********************** the standard error stream **************************)
NoOutput == <<>>

(************************* svd_differential: calls *************************)
NoSens == [k \in Idx3 |-> NoMat]
NoSensTriple == <<NoSens, NoSens, NoSens>>

DiffIdle ==
    /\ dusv = NoTriple /\ dpc = "idle" /\ dcall = NoTriple
    /\ dengine = NoSensTriple /\ dout = NoSensTriple

\* singular values that are distinct and not zero
DiffSigmas == {Arr(<<3, 2, 1>>), Arr(<<1, 3, 2>>)}

DiffInit ==
    /\ mode = "differential"
    /\ \E u \in Orth3, v \in Orth3, s \in DiffSigmas : dusv = <<u, s, v>>
    /\ dpc = "call"
    /\ dcall = NoTriple
    /\ dengine = NoSensTriple
    /\ dout = NoSensTriple

\* (diff_u, diff_s, diff_v) = svd_differential(u, s, v)
SvdDifferential ==
    /\ mode = "differential"
    /\ dpc = "call"
    /\ \E du \in Sensitivities, dv \in Sensitivities :
          LET args == DifferentialCall(dusv[1], dusv[2], dusv[3])
              answer == <<du, RowMajorDiffS(args[1], args[3]), dv>>
          IN  /\ dcall' = args
              /\ dengine' = answer
              /\ dout' = svd_differential(answer)
    /\ dpc' = "done"
    /\ UNCHANGED <<mode, stderr, coreVars, algVars, dusv,
                   aabbVars, edgeVars, rotVars, ccdVars>>

(******************************* aabb: calls *******************************)
AabbIdle ==
    /\ baabb = <<>> /\ borg = <<>> /\ bdir = <<>>
    /\ bpc = "idle" /\ bres = None

\* the boxes with aabb[i] <= aabb[i + NDIM] in every dimension
Boxes ==
    {b \in [0..(2 * NDIM - 1) -> 0..MaxCoord] :
        \A i \in 0..(NDIM - 1) : b[i] <= b[i + NDIM]}

AabbInit ==
    /\ mode = "aabb"
    /\ baabb \in Boxes
    /\ borg \in [0..(NDIM - 1) -> (-1)..MaxCoord]
    /\ bdir \in [0..(NDIM - 1) -> (-2)..2]
    /\ bpc = "call"
    /\ bres = None

IntersectionsAgainstLine ==
    /\ mode = "aabb"
    /\ bpc = "call"
    /\ bres' = intersections_against_line(baabb, borg, bdir)
    /\ bpc' = "line"
    /\ UNCHANGED <<mode, stderr, coreVars, algVars, baabb, borg, bdir,
                   diffVars, edgeVars, rotVars, ccdVars>>

IntersectionsAgainstRay ==
    /\ mode = "aabb"
    /\ bpc = "call"
    /\ bres' = intersections_against_ray(baabb, borg, bdir)
    /\ bpc' = "ray"
    /\ UNCHANGED <<mode, stderr, coreVars, algVars, baabb, borg, bdir,
                   diffVars, edgeVars, rotVars, ccdVars>>

(************************* nearest_to_edge3: calls *************************)
NoEdgeResult == [dist |-> QInt(0), rp |-> QInt(0), rq |-> QInt(0)]

EdgeIdle == kedges = <<>> /\ kpc = "idle" /\ kres = NoEdgeResult

\* end points, in units of 2^-27: they span edges shorter and longer than
\* the square root of epsilon, parallel, nearly parallel and skew
EdgePoints ==
    { Arr(<<0, 0, 0>>), Arr(<<3, 0, 0>>), Arr(<<0, 3, 0>>), Arr(<<0, 0, 3>>),
      Arr(<<3, 3, 0>>), Arr(<<1, 0, 0>>), Arr(<<3, 1, 0>>), Arr(<<3, 3, 3>>) }

EdgeInit ==
    /\ mode = "edge"
    /\ kedges \in EdgePoints \X EdgePoints \X EdgePoints \X EdgePoints
    /\ kpc = "call"
    /\ kres = NoEdgeResult

NearestToEdge3 ==
    /\ mode = "edge"
    /\ kpc = "call"
    /\ LET r == nearest_to_edge3(kedges[1], kedges[2], kedges[3], kedges[4])
       IN  IF r.abort
           THEN kpc' = "panic" /\ UNCHANGED kres
           ELSE kpc' = "done" /\ kres' = r.value
    /\ UNCHANGED <<mode, stderr, coreVars, algVars, kedges,
                   diffVars, aabbVars, rotVars, ccdVars>>

(********************** minimum_rotation_matrix: calls *********************)
RotIdle ==
    /\ mv0 = [i \in Idx3 |-> 0] /\ mv1 = [i \in Idx3 |-> 0]
    /\ mpc = "idle" /\ mres = NoMat

\* the non-zero vectors along an axis, of length at most MaxLen
AxisVectors ==
    {[i \in Idx3 |-> IF i = a THEN k ELSE 0] :
        a \in Idx3, k \in ((-MaxLen)..MaxLen) \ {0}}

RotInit ==
    /\ mode = "rotation"
    /\ mv0 \in AxisVectors
    /\ mv1 \in AxisVectors
    /\ mpc = "call"
    /\ mres = NoMat

MinimumRotationMatrix ==
    /\ mode = "rotation"
    /\ mpc = "call"
    /\ \E frame \in Frames(normalize(mv0)) :
          mres' = minimum_rotation_matrix(mv0, mv1, frame)
    /\ mpc' = "done"
    /\ UNCHANGED <<mode, stderr, coreVars, algVars, mv0, mv1,
                   diffVars, aabbVars, edgeVars, ccdVars>>

(*************************** coplanar_time: calls **************************)
NoPoints == [p0 |-> <<>>, p1 |-> <<>>, p2 |-> <<>>]

CcdIdle ==
    /\ cstart = NoPoints /\ cend = NoPoints /\ cpc = "idle"
    /\ ccoef = <<0, 0, 0>> /\ cres = None

\* ThreePoints with coordinates 0 or 1
Points2 == [Idx2 -> 0..1]
ThreePoints == [p0 : Points2, p1 : Points2, p2 : Points2]

CcdInit ==
    /\ mode = "ccd"
    /\ cstart \in ThreePoints
    /\ cend \in ThreePoints
    /\ cpc = "call"
    /\ ccoef = <<0, 0, 0>>
    /\ cres = None

CoplanarTime ==
    /\ mode = "ccd"
    /\ cpc = "call"
    /\ ccoef' = CoplanarCoefficients(cstart, cend)
    /\ cres' = coplanar_time(cstart, cend)
    /\ cpc' = "done"
    /\ UNCHANGED <<mode, stderr, coreVars, algVars, cstart, cend,
                   diffVars, aabbVars, edgeVars, rotVars>>

GeoIdle == DiffIdle /\ AabbIdle /\ EdgeIdle /\ RotIdle /\ CcdIdle

(***************************************************************************)
(*      mat3_col_major: skew matrices, try_inverse; edge3: coplanar        *)
(*      intersection; vec2::from_homogeneous                               *)
(***************************************************************************)
\* the coordinates of the vectors v and w are drawn from -MaxSkew..MaxSkew
MaxSkew == 1

\* mutant: the transposed skew matrix
Mut_from_vec3_to_skew_mat(v) ==
    Arr(<<0, -v[2], v[1], v[2], 0, -v[0], -v[1], v[0], 0>>)

from_vec3_to_skew_mat(v) ==
    Arr(<<0, v[2], -v[1], -v[2], 0, v[0], v[1], -v[0], 0>>)

\* half is 0.5: the products are exact, the differences are integers
to_vec3_from_skew_mat(m) ==
    Arr(<<Half(m[5] - m[7]), Half(m[6] - m[2]), Half(m[1] - m[3])>>)

NoVec == <<>>

SkewIdle ==
    /\ wv = NoVec /\ ww = NoVec /\ wpc = "idle"
    /\ wmat = NoMat /\ wback = None /\ wprod = None

SkewVectors == [Idx3 -> (-MaxSkew)..MaxSkew]

SkewInit ==
    /\ mode = "skew"
    /\ wv \in SkewVectors
    /\ ww \in SkewVectors
    /\ wpc = "call"
    /\ wmat = NoMat /\ wback = None /\ wprod = None

FromVec3ToSkewMat ==
    /\ mode = "skew"
    /\ wpc = "call"
    /\ wmat' = from_vec3_to_skew_mat(wv)
    /\ wpc' = "skew"
    /\ UNCHANGED <<mode, stderr, coreVars, geoVars, wv, ww, wback, wprod,
                   invVars, copVars, homVars>>

ToVec3FromSkewMat ==
    /\ mode = "skew"
    /\ wpc = "skew"
    /\ wback = None
    /\ wback' = Some(to_vec3_from_skew_mat(wmat))
    /\ UNCHANGED <<mode, stderr, coreVars, geoVars, wv, ww, wpc, wmat, wprod,
                   invVars, copVars, homVars>>

SkewMultVec ==
    /\ mode = "skew"
    /\ wpc = "skew"
    /\ wprod = None
    /\ wprod' = Some(mult_vec(wmat, ww))
    /\ UNCHANGED <<mode, stderr, coreVars, geoVars, wv, ww, wpc, wmat, wback,
                   invVars, copVars, homVars>>

(************************ mat3_col_major::try_inverse ***********************)
\* the entries of the argument are drawn from 0..MaxEntry; with MaxEntry = 1
\* the determinant is in -2..2, so 1 / det and every entry of the inverse
\* are dyadic and the exact rationals below are the f64 values
MaxEntry == 1

\* the cofactors in the order of the returned array
Cofactors(b) ==
    Arr(<<b[4] * b[8] - b[5] * b[7],
          b[2] * b[7] - b[1] * b[8],
          b[1] * b[5] - b[2] * b[4],
          b[5] * b[6] - b[3] * b[8],
          b[0] * b[8] - b[2] * b[6],
          b[2] * b[3] - b[0] * b[5],
          b[3] * b[7] - b[4] * b[6],
          b[1] * b[6] - b[0] * b[7],
          b[0] * b[4] - b[1] * b[3]>>)

\* inv_det * cofactor, entry by entry
ScaledBy(inv_det, c) == [i \in Idx9 |-> QMul(inv_det, QInt(c[i]))]

\* mutant: the cofactors are not transposed
Mut_try_inverse(b) ==
    IF determinant(b) = 0
    THEN None
    ELSE Some(ScaledBy(QDiv(QInt(1), QInt(determinant(b))),
                       transpose(Cofactors(b))))

try_inverse(b) ==
    IF determinant(b) = 0
    THEN None
    ELSE Some(ScaledBy(QDiv(QInt(1), QInt(determinant(b))), Cofactors(b)))

\* a matrix of integers as a matrix of rationals
QMat(m) == [i \in Idx9 |-> QInt(m[i])]

\* mult_mat_col_major on rational entries
QMultMatColMajor(a, b) ==
    [n \in Idx9 |->
        QAdd(QAdd(QMul(a[n % 3], b[3 * (n \div 3)]),
                  QMul(a[(n % 3) + 3], b[1 + 3 * (n \div 3)])),
             QMul(a[(n % 3) + 6], b[2 + 3 * (n \div 3)]))]

InvIdle == im = NoMat /\ ipc = "idle" /\ ires = None

InvInit ==
    /\ mode = "inverse"
    /\ im \in [Idx9 -> 0..MaxEntry]
    /\ ipc = "call"
    /\ ires = None

TryInverse ==
    /\ mode = "inverse"
    /\ ipc = "call"
    /\ ires' = try_inverse(im)
    /\ ipc' = "done"
    /\ UNCHANGED <<mode, stderr, coreVars, geoVars, im,
                   skewVars, copVars, homVars>>

(**************** edge3::intersection_edge3_when_coplanar *****************)
\* The end points lie in the plane z = 0 and have x and y in
\* 0..MaxPlanar, in units of 2^-13.  The normal n is along z, in units of
\* 2^-26, and so is the z coordinate of p2; the volumes are in units of
\* 2^-52.  The sums and products below are exact in f64 on these values.
MaxPlanar == 2

add(a, b) == [i \in Idx3 |-> a[i] + b[i]]

\* tet::volume: a sixth of the triple product of the edges at v1
volume(v1, v2, v3, v4) ==
    Q(dot(sub(v2, v1), cross(sub(v3, v1), sub(v4, v1))), 6)

QAbs(a) == <<Abs(a[1]), a[2]>>

\* lines 325-333: the longer of the two normals
CoplanarNormal(n0, n1) == IF dot(n0, n0) < dot(n1, n1) THEN n1 ELSE n0

\* lines 339-349
CoplanarRatios(rq1, rq0, rp1, rp0) ==
    IF QLe(QAbs(QSub(rp0, rp1)), QInt(0))
    THEN None
    ELSE IF QLe(QAbs(QSub(rq0, rq1)), QInt(0))
    THEN None
    ELSE Some(<<QMul(rp0, QDiv(QInt(1), QSub(rp0, rp1))),
                QMul(QNeg(rp1), QDiv(QInt(1), QSub(rp0, rp1))),
                QMul(rq0, QDiv(QInt(1), QSub(rq0, rq1))),
                QMul(QNeg(rq1), QDiv(QInt(1), QSub(rq0, rq1)))>>)

\* lines 334-338: <<rq1, rq0, rp1, rp0>>
CoplanarVolumes(p0, p1, q0, q1, p2) ==
    <<volume(p0, p1, p2, q0), volume(p0, p1, p2, q1),
      volume(q0, q1, p2, p0), volume(q0, q1, p2, p1)>>

CoplanarP2(p0, p1, q0, q1) ==
    add(p0, CoplanarNormal(cross(sub(p1, p0), sub(q0, p0)),
                           cross(sub(p1, p0), sub(q1, p0))))

intersection_edge3_when_coplanar(p0, p1, q0, q1) ==
    CHOOSE out \in
        {CoplanarRatios(r[1], r[2], r[3], r[4]) :
            r \in {CoplanarVolumes(p0, p1, q0, q1,
                                   CoplanarP2(p0, p1, q0, q1))}} : TRUE

CopIdle == xedges = <<>> /\ xpc = "idle" /\ xres = None

PlanarPoints ==
    {Arr(<<x, y, 0>>) : x \in 0..MaxPlanar, y \in 0..MaxPlanar}

CopInit ==
    /\ mode = "coplanar"
    /\ xedges \in PlanarPoints \X PlanarPoints \X PlanarPoints \X PlanarPoints
    /\ xpc = "call"
    /\ xres = None

IntersectionEdge3WhenCoplanar ==
    /\ mode = "coplanar"
    /\ xpc = "call"
    /\ xres' = intersection_edge3_when_coplanar(xedges[1], xedges[2],
                                                xedges[3], xedges[4])
    /\ xpc' = "done"
    /\ UNCHANGED <<mode, stderr, coreVars, geoVars, xedges,
                   skewVars, invVars, homVars>>

(************************* vec2::from_homogeneous **************************)
\* the coordinates of the argument are drawn from -MaxHom..MaxHom
MaxHom == 2

\* lines 151-154: both coordinates are written v[0] / v[2]
from_homogeneous(v) ==
    IF v[2] = 0
    THEN None
    ELSE Some(Arr(<<QDiv(QInt(v[0]), QInt(v[2])),
                    QDiv(QInt(v[0]), QInt(v[2]))>>))

HomIdle == hv = NoVec /\ hpc = "idle" /\ hres = None

HomInit ==
    /\ mode = "homogeneous"
    /\ hv \in [Idx3 -> (-MaxHom)..MaxHom]
    /\ hpc = "call"
    /\ hres = None

FromHomogeneous ==
    /\ mode = "homogeneous"
    /\ hpc = "call"
    /\ hres' = from_homogeneous(hv)
    /\ hpc' = "done"
    /\ UNCHANGED <<mode, stderr, coreVars, geoVars, hv,
                   skewVars, invVars, copVars>>

AlgIdle == SkewIdle /\ InvIdle /\ CopIdle /\ HomIdle

(***************************************************************************)
(*                       Claims on eigen_decomp                            *)
(***************************************************************************)
\* The Frobenius norm of sm is below machine epsilon: norm < 2^-52, that is
\* squared norm < 2^-104, that is squared_norm(sm) < 2^-48 in the unit 2^-56
\* of dnrm; squared_norm(sm) is a natural number, so it is below one.
NormBelowEpsilon(a) == squared_norm(a) < 1

EigenReturned == gpc = "done"

\* C1 (as claimed): None is returned if the Frobenius norm of sm is below
\* machine epsilon, and Some((U, L)) for every other input.
C1_NoneIffNormBelowEpsilon ==
    EigenReturned => (IsNone(gres) <=> NormBelowEpsilon(gsm))

\* C1 (amended): None is returned exactly when the squared Frobenius norm of
\* sm is below machine epsilon (in particular for the zero matrix), and
\* Some((U, L)) for every other input.
C1_NoneIffSquaredNormBelowEpsilon ==
    EigenReturned =>
        /\ IsNone(gres) <=> squared_norm(gsm) < Epsilon
        /\ gsm = NoSym => IsNone(gres)

C1_Witness ==
    /\ EigenReturned
    /\ IsNone(gres)
    /\ ~NormBelowEpsilon(gsm)
    /\ squared_norm(gsm) = Epsilon - 1

\* the largest entry, in absolute value, of U^T U - I (times FP * FP)
OrthoDefect(w) ==
    LET d(i, j) ==
            Abs(w[i] * w[j] + w[3 + i] * w[3 + j] + w[6 + i] * w[6 + j]
                - (IF i = j THEN FP * FP ELSE 0))
        ds == {d(i, j) : i, j \in Idx3}
    IN  CHOOSE x \in ds : \A y \in ds : y <= x

\* C2: whenever the input is not rejected, U is orthogonal after every
\* iteration of the loop and when it is returned, for every nitr including 0:
\* U^T U = I exactly before the first rotation, and to within two units of
\* rounding (2/FP) per rotation applied afterwards.
C2_UOrthogonal ==
    /\ gpc = "loop" => OrthoDefect(gu) <= 2 * FP * gitr
    /\ (EigenReturned /\ ~IsNone(gres)) =>
          OrthoDefect(Unwrapped(gres)[1]) <= 2 * FP * gnitr

C2_Witness ==
    /\ EigenReturned
    /\ ~IsNone(gres)
    /\ gnitr >= 2
    /\ gitr = gnitr
    /\ \A i \in Idx9 : Unwrapped(gres)[1][i] # UInit[i]
    /\ OrthoDefect(Unwrapped(gres)[1]) <= 2 * FP * gnitr

(***************************************************************************)
(*                 Claims on the rotation projector                        *)
(***************************************************************************)
\* U * diag(S) * V^T in column-major storage
Reconstruct(u, s, v) ==
    mult_mat_col_major(mult_mat_col_major(u, from_diagonal(s)), transpose(v))

EnforceReturned == epc \in {"once", "twice"}

\* C4: for orthogonal U and V (determinant +1 or -1 each) the returned factors
\* both have determinant +1.
C4_BothDeterminantsOne ==
    (EnforceReturned /\ IsOrthogonal(eu) /\ IsOrthogonal(ev))
        => determinant(eout[1]) = 1 /\ determinant(eout[3]) = 1

C4_Witness ==
    /\ epc = "once"
    /\ IsOrthogonal(eu) /\ determinant(eu) = -1
    /\ IsOrthogonal(ev) /\ determinant(ev) = -1
    /\ determinant(eout[1]) = 1

\* C5: for every input triple the returned triple reconstructs the same matrix,
\* entry by entry: U' diag(S') V'^T = U diag(S) V^T.
C5_SameReconstruction ==
    EnforceReturned
        => Reconstruct(eout[1], eout[2], eout[3]) = Reconstruct(eu, el, ev)

C5_Witness ==
    /\ epc = "once"
    /\ determinant(eu) < 0
    /\ determinant(ev) > 0
    /\ el[2] > 0
    /\ eout[2][2] = -el[2]
    /\ Reconstruct(eu, el, ev)[8] # 0

\* C6: a factor whose determinant is +1 is returned as it was given, whatever
\* the other factor is; with both proper the whole triple is returned unchanged.
C6_ProperFactorUntouched ==
    EnforceReturned =>
        /\ determinant(eu) = 1 => eout[1] = eu
        /\ determinant(ev) = 1 => eout[3] = ev
        /\ (determinant(eu) = 1 /\ determinant(ev) = 1) => eout = <<eu, el, ev>>

C6_Witness ==
    /\ epc = "once"
    /\ determinant(eu) = 1
    /\ determinant(ev) = -1
    /\ eout[1] = eu
    /\ eout[3] # ev

\* C7: applying the function to its own output returns that output unchanged.
C7_Idempotent == epc = "twice" => eout2 = eout

C7_Witness ==
    /\ epc = "twice"
    /\ determinant(eu) < 0
    /\ determinant(ev) = 0
    /\ eout # <<eu, el, ev>>
    /\ eout2 = eout

(***************************************************************************)
(*                 Claims on rotational_component and svd                  *)
(***************************************************************************)
RcU == Unwrapped(rsvd)[1]
RcV == Unwrapped(rsvd)[3]
RcUVt == mult_mat_col_major(RcU, transpose(RcV))

\* C8: for an invertible a the returned matrix has determinant +1, whichever
\* signs the determinants of the SVD factors have.
C8_ProperRotation ==
    (rpc = "done" /\ determinant(ra) # 0) => determinant(rout) = 1

C8_Witness ==
    /\ rpc = "done"
    /\ determinant(ra) # 0
    /\ determinant(RcU) = 1
    /\ determinant(RcV) = -1
    /\ determinant(rout) = 1

\* V with the sign of its third row flipped (entries (2,0), (2,1), (2,2))
NegThirdRow(v) == [v EXCEPT ![2] = -v[2], ![5] = -v[5], ![8] = -v[8]]

\* V with the sign of its first column flipped (entries (0,0), (1,0), (2,0))
NegFirstColumn(v) == [v EXCEPT ![0] = -v[0], ![1] = -v[1], ![2] = -v[2]]

\* C9 (as claimed): U V^T is returned unchanged when its determinant is not
\* negative, and with the third row of V negated when it is negative.
C9_ThirdRowFlipped ==
    rpc = "done" =>
        rout = IF determinant(RcUVt) >= 0
               THEN RcUVt
               ELSE mult_mat_col_major(RcU, transpose(NegThirdRow(RcV)))

\* C9 (amended): U V^T is returned unchanged when its determinant is positive;
\* otherwise the first column of V (the first row of V^T) is negated before
\* the product is formed, and no other entry of U or V is altered.
C9_FirstColumnFlipped ==
    rpc = "done" =>
        rout = IF determinant(RcUVt) > 0
               THEN RcUVt
               ELSE mult_mat_col_major(RcU, transpose(NegFirstColumn(RcV)))

C9_Witness ==
    /\ rpc = "done"
    /\ determinant(RcUVt) < 0
    /\ rout # RcUVt
    /\ rout # mult_mat_col_major(RcU, transpose(NegThirdRow(RcV)))

\* C11: the column-major svd answers None exactly when the row-major engine
\* answers None on the same storage (the transposed matrix), and otherwise
\* the engine's triple mapped back: U is the transposed engine V, V the
\* transposed engine U, S the engine's S, so that a = U diag(S) V^T in
\* column-major layout.
C11_TransposedRowMajor ==
    rpc \in {"svd", "done"} =>
        /\ IsNone(rsvd) <=> IsNone(rengine)
        /\ ~IsNone(rsvd) =>
              /\ RcU = transpose(Unwrapped(rengine)[3])
              /\ Unwrapped(rsvd)[2] = Unwrapped(rengine)[2]
              /\ RcV = transpose(Unwrapped(rengine)[1])
              /\ Reconstruct(RcU, Unwrapped(rsvd)[2], RcV) = ra

C11_Witness ==
    /\ rpc = "svd"
    /\ ~IsNone(rsvd)
    /\ ra # transpose(ra)
    /\ RcU # RcV
    /\ Reconstruct(RcU, Unwrapped(rsvd)[2], RcV) = ra

\* C10: a degenerate input (the intermediate decomposition has no result) is
\* answered with None by every entry point, and no call ends in a fatal abort.
C10_DegenerateIsNoneNeverAbort ==
    IsNone(rengine) =>
        /\ rpc = "svd" => IsNone(rsvd)
        /\ rpc # "panic"

\* C15: every decomposition operation is pure: no step of a call writes to
\* the standard error stream (or anywhere but its result), and no step alters
\* an argument of the call.
C15_Pure ==
    [][/\ stderr' = stderr
       /\ ra' = ra
       /\ eu' = eu /\ el' = el /\ ev' = ev
       /\ gsm' = gsm /\ gnitr' = gnitr
       /\ dusv' = dusv]_vars

(***************************************************************************)
(*                     Claims on svd_differential                          *)
(***************************************************************************)
\* C13: the column-major differential hands (transpose(v), s, transpose(u)) to
\* the row-major differential and returns (dv_r, ds_r, du_r) for its answer
\* (du_r, ds_r, dv_r); the singular-value sensitivities are passed through
\* unchanged, and they are the sensitivities in column-major layout:
\* ds[k][i + 3j] = U_ik V_jk.
C13_TransposedDifferential ==
    dpc = "done" =>
        /\ dcall = <<transpose(dusv[3]), dusv[2], transpose(dusv[1])>>
        /\ dout = <<dengine[3], dengine[2], dengine[1]>>
        /\ dout[2] = dengine[2]
        /\ \A k \in Idx3, i \in Idx3, j \in Idx3 :
              dout[2][k][i + 3 * j] = dusv[1][i + 3 * k] * dusv[3][j + 3 * k]

C13_Witness ==
    /\ dpc = "done"
    /\ dusv[1] # dusv[3]
    /\ dusv[1] # transpose(dusv[1])
    /\ dengine[1] # dengine[3]
    /\ dout[1] = dengine[3]
    /\ dout[3] = dengine[1]

(***************************************************************************)
(*                           Claims on aabb                                *)
(***************************************************************************)
ZeroDir == [i \in 0..(NDIM - 1) |-> 0]

\* every parameter at which the line enters or leaves the box, in halves,
\* lies in -TSpan..TSpan
TSpan == 2 * (MaxCoord + 1) + 2

\* borg + (th / 2) * bdir lies in the closed box
InBoxAt(th) ==
    \A i \in 0..(NDIM - 1) :
        /\ 2 * baabb[i] <= 2 * borg[i] + th * bdir[i]
        /\ 2 * borg[i] + th * bdir[i] <= 2 * baabb[i + NDIM]

LineMeetsBox == \E th \in (-TSpan)..TSpan : InBoxAt(th)

RayMeetsBox == \E th \in 0..TSpan : InBoxAt(th)

\* C16: for a non-zero direction, None is returned exactly when the line
\* misses the closed box; otherwise Some((t_min, t_max)) with t_min <= t_max
\* and org + t * dir in the box exactly for t_min <= t <= t_max; a dimension
\* with dir[i] = 0 gives None when org[i] is outside [aabb[i], aabb[i + NDIM]].
C16_LineInterval ==
    (bpc = "line" /\ bdir # ZeroDir) =>
        /\ IsNone(bres) <=> ~LineMeetsBox
        /\ ~IsNone(bres) =>
              /\ Unwrapped(bres)[1] <= Unwrapped(bres)[2]
              /\ \A th \in (-TSpan)..TSpan :
                    InBoxAt(th) <=>
                        (Unwrapped(bres)[1] <= th /\ th <= Unwrapped(bres)[2])
        /\ \A i \in 0..(NDIM - 1) :
              (bdir[i] = 0 /\ (borg[i] < baabb[i] \/ borg[i] > baabb[i + NDIM]))
                  => IsNone(bres)

C16_Witness ==
    /\ bpc = "line"
    /\ ~IsNone(bres)
    /\ bdir[0] = 0
    /\ bdir[1] = -2
    /\ Unwrapped(bres)[1] < 0
    /\ Unwrapped(bres)[1] < Unwrapped(bres)[2]
    /\ InBoxAt(Unwrapped(bres)[1]) /\ ~InBoxAt(Unwrapped(bres)[1] - 1)

\* C17: the ray answers what the line answers when that answer has
\* t_max >= 0, the pair unmodified, and None otherwise; for a non-zero
\* direction None is returned exactly when no point org + t * dir with t >= 0
\* lies in the box.
C17_RayIsFilteredLine ==
    bpc = "ray" =>
        LET l == intersections_against_line(baabb, borg, bdir)
        IN  /\ bres = IF ~IsNone(l) /\ Unwrapped(l)[2] >= 0 THEN l ELSE None
            /\ bdir # ZeroDir => (IsNone(bres) <=> ~RayMeetsBox)

C17_Witness ==
    /\ bpc = "ray"
    /\ ~IsNone(bres)
    /\ Unwrapped(bres)[1] < 0
    /\ Unwrapped(bres)[2] > 0
    /\ bres = intersections_against_line(baabb, borg, bdir)

(***************************************************************************)
(*                      Claims on nearest_to_edge3                         *)
(***************************************************************************)
\* the point of the edge (a, b) at ratio r
EdgePointAt(a, b, r) == axpy(r, sub(b, a), QVec(a))

RatioGrid == {QInt(0), Q(1, 2), QInt(1)}

\* C18: for edges with p0 # p1 and q0 # q1 the returned ratios lie in
\* [0, 1], the returned distance is the distance of the points at those
\* ratios, and no pair of points of the two edges is closer.
C18_MinimumDistance ==
    kpc = "done" =>
        /\ QLe(QInt(0), kres.rp) /\ QLe(kres.rp, QInt(1))
        /\ QLe(QInt(0), kres.rq) /\ QLe(kres.rq, QInt(1))
        /\ kres.dist = SquaredLength(EdgePointAt(kedges[1], kedges[2], kres.rp),
                                     EdgePointAt(kedges[3], kedges[4], kres.rq))
        /\ \A a \in RatioGrid, b \in RatioGrid :
              QLe(kres.dist,
                  SquaredLength(EdgePointAt(kedges[1], kedges[2], a),
                                EdgePointAt(kedges[3], kedges[4], b)))

(***************************************************************************)
(*                  Claims on minimum_rotation_matrix                      *)
(***************************************************************************)
\* C19: the returned matrix, multiplied with mult_vec by the normalized v0,
\* gives the normalized v1.
C19_RotatesV0ToV1 ==
    mpc = "done" => mult_vec(mres, normalize(mv0)) = normalize(mv1)

(***************************************************************************)
(*                       Claims on coplanar_time                           *)
(***************************************************************************)
\* the coefficients of (x1 + t v1) x (x2 + t v2)
CrossProductCoefficients(s, e) ==
    LET x1 == Sub2(s.p1, s.p0)
        x2 == Sub2(s.p2, s.p0)
        v1 == Sub2(Sub2(e.p1, e.p0), x1)
        v2 == Sub2(Sub2(e.p2, e.p0), x2)
    IN  <<area_quadrilateral(x1, x2),
          area_quadrilateral(v1, x2) + area_quadrilateral(x1, v2),
          area_quadrilateral(v1, v2)>>

\* C20: the roots returned are the roots of c0 + c1 t + c2 t^2 with
\* c0 = x1 x x2, c1 = v1 x x2 + x1 x v2 and c2 = v1 x v2 (stated where the
\* polynomial is of degree two).
C20_RootsOfCrossProduct ==
    (cpc = "done" /\ CrossProductCoefficients(cstart, cend)[3] # 0) =>
        LET c == CrossProductCoefficients(cstart, cend)
        IN  /\ ccoef = c
            /\ cres = quadratic_root(c[1], c[2], c[3])

(***************************************************************************)
(*                  Claims on the Jacobi sweep of eigen_decomp             *)
(***************************************************************************)
\* the value returned on an argument that is not too small has gone through
\* nitr iterations; without an iteration it is the identity and the diagonal
\* of the normalized argument, rescaled
C24_Returned ==
    (gpc = "done" /\ ~TooSmall(squared_norm(gsm))) =>
        /\ gres # None
        /\ gitr = gnitr
        /\ gnitr = 0 =>
              /\ gres[1][1] = [i \in Idx9 |-> FP * from_identity[i]]
              /\ gres[1][2] =
                    Rescaled(ScaleOf(squared_norm(gsm)),
                             Normalized(gsm, ScaleOf(squared_norm(gsm))))

\* a step of the loop is one rotation: it is counted once, within the budget
C24_OneRotation ==
    (gpc = "loop" /\ gpc' = "loop") =>
        /\ gitr' = gitr + 1
        /\ gitr' <= gnitr
        /\ gpivot' \in {"12", "20", "01"}

\* the iterations taken are within the budget, and below the budget one of
\* the three branches is open: the loop neither stalls nor runs on
C24_Progress ==
    gpc = "loop" =>
        /\ gitr <= gnitr
        /\ gitr < gnitr => (Is12(gsms) \/ Is20(gsms) \/ Is01(gsms))

\* C24: on a non-degenerate argument eigen_decomp(sm, nitr) terminates after
\* exactly nitr Jacobi rotations, one per iteration and without an early
\* exit; with nitr = 0 it returns the identity as U and the normalized then
\* rescaled diagonal of the argument as L.
C24_ExactlyNitrRotations ==
    /\ [](C24_Returned /\ C24_Progress)
    /\ [][C24_OneRotation]_vars

\* a call with a budget of at least two iterations has returned, and its
\* rotations have changed U
C24_Witness ==
    /\ gpc = "done" /\ gres # None
    /\ gnitr >= 2 /\ gitr = gnitr
    /\ gres[1][1] # UInit

\* C25: an iteration takes exactly one of the branches 12, 20, 01, the one
\* whose off-diagonal entry is the largest in magnitude at the head of the
\* iteration; in a tie 12 wins whenever it takes part, 20 wins against 01,
\* and 01 is taken only when it is strictly the largest.
C25_LargestPivot ==
    gitr > 0 =>
        /\ gpivot \in {"12", "20", "01"}
        /\ gpivot = "12" <=>
              (Abs(gm[3]) >= Abs(gm[4]) /\ Abs(gm[3]) >= Abs(gm[5]))
        /\ gpivot = "20" <=>
              (Abs(gm[4]) > Abs(gm[3]) /\ Abs(gm[4]) >= Abs(gm[5]))
        /\ gpivot = "01" <=>
              (Abs(gm[5]) > Abs(gm[3]) /\ Abs(gm[5]) > Abs(gm[4]))

\* an iteration whose entries 20 and 01 tied above 12
C25_Witness ==
    /\ gitr > 0
    /\ gpivot = "20"
    /\ Abs(gm[4]) = Abs(gm[5])
    /\ Abs(gm[3]) > 0

\* w is v with the rotation cs = <<cos, sin>> applied to the entries i and j
\* of each triple, the entry k of each triple being kept
RotatedBy(cs, w, v, i, j, k) ==
    \A b \in {0, 3, 6} :
        /\ w[b + i] = Mul(cs[1], v[b + i]) - Mul(cs[2], v[b + j])
        /\ w[b + j] = Mul(cs[2], v[b + i]) + Mul(cs[1], v[b + j])
        /\ w[b + k] = v[b + k]

\* the working matrix after an iteration on the pivot p with the rotation
\* cs: entry p is zero, the diagonal entry d is kept, and the off-diagonal
\* entries x and y are rotated by cs
PivotCleared(cs, p, d, x, y) ==
    /\ gsms[p] = 0
    /\ gsms[d] = gm[d]
    /\ gsms[x] = Mul(cs[2], gm[y]) + Mul(cs[1], gm[x])
    /\ gsms[y] = Mul(cs[1], gm[y]) - Mul(cs[2], gm[x])

\* C26: after an iteration the pivot entry of the working matrix is exactly
\* zero, the diagonal entry that is not involved is unchanged, and the
\* rotation of the iteration (the same cosine and sine, on the same pair of
\* indices) has been accumulated into U.
C26_PivotZeroed ==
    gitr > 0 =>
        /\ gpivot = "12" =>
              /\ PivotCleared(HalfAtan2CosSin(2 * gm[3], gm[2] - gm[1]),
                              3, 0, 4, 5)
              /\ RotatedBy(HalfAtan2CosSin(2 * gm[3], gm[2] - gm[1]),
                           gu, gv, 1, 2, 0)
        /\ gpivot = "20" =>
              /\ PivotCleared(HalfAtan2CosSin(2 * gm[4], gm[2] - gm[0]),
                              4, 1, 3, 5)
              /\ RotatedBy(HalfAtan2CosSin(2 * gm[4], gm[2] - gm[0]),
                           gu, gv, 0, 2, 1)
        /\ gpivot = "01" =>
              /\ PivotCleared(HalfAtan2CosSin(2 * gm[5], gm[1] - gm[0]),
                              5, 2, 3, 4)
              /\ RotatedBy(HalfAtan2CosSin(2 * gm[5], gm[1] - gm[0]),
                           gu, gv, 0, 1, 2)

\* a second iteration, on the pivot 20, of a matrix whose entry 20 was not
\* zero, on a U that was no longer the identity
C26_Witness ==
    /\ gitr >= 2
    /\ gpivot = "20"
    /\ gm[4] # 0
    /\ gv # UInit
    /\ gu # gv

(***************************************************************************)
(*             Claims on what the rotation projector changes               *)
(***************************************************************************)
\* C27: enforce_rotation_matrix_for_svd changes only the third column of an
\* improper factor and S[2]: the first two columns of U and of V, S[0] and
\* S[1] are returned as given, and S'[2] = -S[2] when exactly one of det(U),
\* det(V) is negative, S'[2] = S[2] when both or neither are.
C27_OnlyThirdColumnAndValue ==
    EnforceReturned =>
        /\ \A i \in 0..5 : eout[1][i] = eu[i] /\ eout[3][i] = ev[i]
        /\ determinant(eu) >= 0 => eout[1] = eu
        /\ determinant(ev) >= 0 => eout[3] = ev
        /\ eout[2][0] = el[0] /\ eout[2][1] = el[1]
        /\ (determinant(eu) < 0) # (determinant(ev) < 0)
              => eout[2][2] = -el[2]
        /\ (determinant(eu) < 0) = (determinant(ev) < 0)
              => eout[2][2] = el[2]

\* both factors improper with a third singular value that is not zero: both
\* third columns are flipped, the value is kept
C27_Witness ==
    /\ epc = "once"
    /\ determinant(eu) < 0 /\ determinant(ev) < 0
    /\ el[2] # 0 /\ eout[2][2] = el[2]
    /\ eout[1] = NegThirdColumn(eu) /\ eout[1] # eu
    /\ eout[3] = NegThirdColumn(ev) /\ eout[3] # ev

(***************************************************************************)
(*                     Claims on the skew matrices                         *)
(***************************************************************************)
\* C21: the vector read back from the skew matrix of v is v, and the skew
\* matrix of v applied to w is the cross product v x w.
C21_SkewRoundTrip ==
    /\ wback # None => wback[1] = wv
    /\ wprod # None => wprod[1] = cross(wv, ww)

\* both products of a call on vectors with a non-zero cross product
C21_Witness ==
    /\ wback # None /\ wprod # None
    /\ wv[0] # 0 /\ wv[1] # 0 /\ wv[2] # 0
    /\ \A i \in Idx3 : wprod[1][i] # 0

(***************************************************************************)
(*                        Claims on try_inverse                            *)
(***************************************************************************)
\* C22: try_inverse(m) is None exactly when determinant(m) is zero, and
\* otherwise it is Some(mi) where m * mi and mi * m are both the identity.
C22_InverseOrNone ==
    ipc = "done" =>
        /\ ires = None <=> determinant(im) = 0
        /\ ires # None =>
              /\ QMultMatColMajor(QMat(im), ires[1]) = QMat(from_identity)
              /\ QMultMatColMajor(ires[1], QMat(im)) = QMat(from_identity)

\* an inverse with an entry that is not an integer, of a matrix that is not
\* symmetric
C22_Witness ==
    /\ ipc = "done" /\ ires # None
    /\ determinant(im) = 2
    /\ im # transpose(im)
    /\ \E i \in Idx9 : ires[1][i][2] = 2

(***************************************************************************)
(*            Claims on intersection_edge3_when_coplanar                   *)
(***************************************************************************)
\* the four volumes of a call on the edges e, <<rq1, rq0, rp1, rp0>>
VolumesOf(e) ==
    CoplanarVolumes(e[1], e[2], e[3], e[4],
                    CoplanarP2(e[1], e[2], e[3], e[4]))

\* x is below machine epsilon: |x| < 2^-52, the unit of the volumes
NearZero(x) == Abs(x[1]) < x[2]

\* C23: the call returns None whenever rp0 - rp1 or rq0 - rq1 is zero or
\* near zero, and a returned (rp0, rp1, rq0, rq1) has rp0 + rp1 = 1 and
\* rq0 + rq1 = 1.
C23_NoneWhenNearZero ==
    xpc = "done" =>
        /\ (\/ NearZero(QSub(VolumesOf(xedges)[4], VolumesOf(xedges)[3]))
            \/ NearZero(QSub(VolumesOf(xedges)[2], VolumesOf(xedges)[1])))
              => xres = None
        /\ xres # None =>
              /\ QAdd(xres[1][1], xres[1][2]) = QInt(1)
              /\ QAdd(xres[1][3], xres[1][4]) = QInt(1)

(***************************************************************************)
(*                    Claims on vec2::from_homogeneous                     *)
(***************************************************************************)
\* C28: from_homogeneous(v) is None exactly when v[2] is zero, and
\* otherwise it is the point [v[0] / v[2], v[1] / v[2]].
C28_Dehomogenized ==
    hpc = "done" =>
        /\ hres = None <=> hv[2] = 0
        /\ hres # None =>
              hres[1] = Arr(<<QDiv(QInt(hv[0]), QInt(hv[2])),
                              QDiv(QInt(hv[1]), QInt(hv[2]))>>)

(***************************** specifications ******************************)
InitEnforce == stderr = NoOutput /\ EnfInit /\ RcIdle /\ EigIdle /\ GeoIdle /\ AlgIdle
NextEnforce == Enforce \/ EnforceAgain
SpecEnforce == InitEnforce /\ [][NextEnforce]_vars

InitRotComp == stderr = NoOutput /\ RcInit /\ EnfIdle /\ EigIdle /\ GeoIdle /\ AlgIdle
NextRotComp == Svd \/ RotationalComponent
SpecRotComp == InitRotComp /\ [][NextRotComp]_vars

InitEigen == stderr = NoOutput /\ EigInit /\ EnfIdle /\ RcIdle /\ GeoIdle /\ AlgIdle
NextEigen ==
    \/ EigenTooSmall
    \/ EigenNormalize
    \/ Jacobi12
    \/ Jacobi20
    \/ Jacobi01
    \/ EigenReturn
SpecEigen == InitEigen /\ [][NextEigen]_vars

CoreIdle == stderr = NoOutput /\ EnfIdle /\ RcIdle /\ EigIdle

InitDifferential ==
    CoreIdle /\ DiffInit /\ AabbIdle /\ EdgeIdle /\ RotIdle /\ CcdIdle /\ AlgIdle
NextDifferential == SvdDifferential
SpecDifferential == InitDifferential /\ [][NextDifferential]_vars

InitAabb ==
    CoreIdle /\ DiffIdle /\ AabbInit /\ EdgeIdle /\ RotIdle /\ CcdIdle /\ AlgIdle
NextAabb == IntersectionsAgainstLine \/ IntersectionsAgainstRay
SpecAabb == InitAabb /\ [][NextAabb]_vars

InitEdge ==
    CoreIdle /\ DiffIdle /\ AabbIdle /\ EdgeInit /\ RotIdle /\ CcdIdle /\ AlgIdle
NextEdge == NearestToEdge3
SpecEdge == InitEdge /\ [][NextEdge]_vars

InitRotation ==
    CoreIdle /\ DiffIdle /\ AabbIdle /\ EdgeIdle /\ RotInit /\ CcdIdle /\ AlgIdle
NextRotation == MinimumRotationMatrix
SpecRotation == InitRotation /\ [][NextRotation]_vars

InitCcd ==
    CoreIdle /\ DiffIdle /\ AabbIdle /\ EdgeIdle /\ RotIdle /\ CcdInit /\ AlgIdle
NextCcd == CoplanarTime
SpecCcd == InitCcd /\ [][NextCcd]_vars

InitSkew == CoreIdle /\ GeoIdle /\ SkewInit /\ InvIdle /\ CopIdle /\ HomIdle
NextSkew == FromVec3ToSkewMat \/ ToVec3FromSkewMat \/ SkewMultVec
SpecSkew == InitSkew /\ [][NextSkew]_vars

InitInverse == CoreIdle /\ GeoIdle /\ SkewIdle /\ InvInit /\ CopIdle /\ HomIdle
NextInverse == TryInverse
SpecInverse == InitInverse /\ [][NextInverse]_vars

InitCoplanar == CoreIdle /\ GeoIdle /\ SkewIdle /\ InvIdle /\ CopInit /\ HomIdle
NextCoplanar == IntersectionEdge3WhenCoplanar
SpecCoplanar == InitCoplanar /\ [][NextCoplanar]_vars

InitHomogeneous ==
    CoreIdle /\ GeoIdle /\ SkewIdle /\ InvIdle /\ CopIdle /\ HomInit
NextHomogeneous == FromHomogeneous
SpecHomogeneous == InitHomogeneous /\ [][NextHomogeneous]_vars

Init ==
    \/ InitEnforce
    \/ InitRotComp
    \/ InitEigen
    \/ InitDifferential
    \/ InitAabb
    \/ InitEdge
    \/ InitRotation
    \/ InitCcd
    \/ InitSkew
    \/ InitInverse
    \/ InitCoplanar
    \/ InitHomogeneous
Next ==
    \/ NextEnforce
    \/ NextRotComp
    \/ NextEigen
    \/ NextDifferential
    \/ NextAabb
    \/ NextEdge
    \/ NextRotation
    \/ NextCcd
    \/ NextSkew
    \/ NextInverse
    \/ NextCoplanar
    \/ NextHomogeneous
Spec == Init /\ [][Next]_vars

============================================================================
